---- MODULE Spec2Model ----
(***************************************************************************)
(* Automatic pagination (src/clients/pagination/stream.rs).                *)
(*                                                                         *)
(* paginate and paginate_with_ctx each return a stream built by the        *)
(* stream! generator: a loop that calls the request function, adds the     *)
(* page length to a u32 offset, yields the page's items one by one and     *)
(* breaks when page.next is None.  `?` on a failed request yields the Err  *)
(* and returns.  The generator only runs while its consumer polls it; it   *)
(* is suspended at the request's .await or at a yield.                     *)
(***************************************************************************)
EXTENDS Integers, Sequences, FiniteSets

VARIABLES
    streams,    \* paginator id -> generator state (captured values, offset, page, position)
    consumer,   \* paginator id -> "idle" | "pulling" (a next().await is outstanding)
    pull,       \* paginator id -> bookkeeping of the current / most recent pull
    calls,      \* paginator id -> calls made to the request function, in order
    out,        \* paginator id -> elements the consumer has received, in order
    nones,      \* paginator id -> number of end-of-sequence (None) results received
    server,     \* the responses of the request function, by call index
    inflight,   \* paginator id -> request futures made and not yet resolved or dropped
    answered,   \* paginator id -> request futures that resolved and were taken by the generator
    overflow_checks  \* the build: TRUE when integer overflow panics, FALSE when it wraps

vars == <<streams, consumer, pull, calls, out, nones, server, inflight, answered, overflow_checks>>

----------------------------------------------------------------------------
(* Bounds of the model *)

MaxFetches == 3       \* calls to the request function per paginator
PairMaxFetches == 2   \* the same, when two paginators run side by side
MaxPageLen == 2       \* items on one page
MaxPageSize == 2      \* page_size values 0..MaxPageSize
MaxEndPulls == 2      \* pulls made after the end of the sequence
WrapMargin == 2       \* how far below 2^32 - 1 a paginator near wrap-around starts

Half == 65536         \* a u32 is kept as <<high 16 bits, low 16 bits>>

Contexts == {"ctx_a", "ctx_b"}
NoCtx == "no_ctx"
Errors == {"err_a", "err_b"}
PageSizes == 0 .. MaxPageSize

----------------------------------------------------------------------------
(* Values *)

\* n as u32 (n below 2^31): the truncating cast `as u32`
AsU32(n) == <<(n \div Half) % Half, n % Half>>

\* a + b on u32, wrapping at 2^32
AddU32(a, b) ==
    LET lo == a[2] + b[2]
    IN  <<(a[1] + b[1] + (lo \div Half)) % Half, lo % Half>>

\* a + b does not fit a u32
Overflows(a, b) == a[1] + b[1] + ((a[2] + b[2]) \div Half) >= Half

\* a <= b on u32
LeqU32(a, b) == a[1] < b[1] \/ (a[1] = b[1] /\ a[2] <= b[2])

None == "None"
Some == "Some"

Ok(v) == [tag |-> "Ok", val |-> v]
Err(e) == [tag |-> "Err", err |-> e]

\* model::Page<T> as far as the engine reads it: items and next
Page(items, next) == [items |-> items, next |-> next]

\* The items the server puts on the page answering call k: n distinct values.
\* T is opaque to the engine, so items are told apart by (call, position).
PageItems(k, n) == [i \in 1 .. n |-> <<k, i>>]

\* Every result the request function can resolve to for call k
Responses(k) ==
    {Ok(Page(PageItems(k, n), nx)) : n \in 0 .. MaxPageLen, nx \in {None, Some}}
        \cup {Err(e) : e \in Errors}

----------------------------------------------------------------------------
(* What one resumption of the generator does: the new generator state, the
   element handed to the consumer (if any), the request issued (if any) and
   whether the stream reported its end. *)

Yielded(g, e) == [g |-> [g EXCEPT !.pc = "yield"], elem |-> <<e>>, call |-> <<>>, end |-> FALSE]
YieldedErr(g, e) == [g |-> [g EXCEPT !.pc = "yield_err"], elem |-> <<e>>, call |-> <<>>, end |-> FALSE]
Awaiting(g, args) == [g |-> [g EXCEPT !.pc = "await"], elem |-> <<>>, call |-> <<args>>, end |-> FALSE]
Finished(g) == [g |-> [g EXCEPT !.pc = "done"], elem |-> <<>>, call |-> <<>>, end |-> TRUE]
\* the poll unwinds with a panic: nothing is handed over, the generator is dead
Panicked(g) == [g |-> [g EXCEPT !.pc = "panicked"], elem |-> <<>>, call |-> <<>>, end |-> FALSE]

\* a slip: the generator lives on after the drop (it was handed to a detached task)
Dropped_detached(g) == g

\* The paginator is dropped: the generator, with the request function it
\* captured and the request future it may be awaiting, is destroyed.
Dropped(g) == [g EXCEPT !.pc = "dropped", !.items = <<>>]

----------------------------------------------------------------------------
(* paginate, lines 41-61 *)

\* let mut offset = 0; Box::pin(stream! { .. }): nothing runs at construction
paginate(page_size) ==
    [variant |-> "paginate", ctx |-> NoCtx, page_size |-> page_size,
     offset |-> AsU32(0), items |-> <<>>, next |-> None, pc |-> "start"]

\* a slip: a page_size of 0 replaced by 1 before it is passed on
paginate_req_clamped(g) ==
    [page_size |-> IF g.page_size = 0 THEN 1 ELSE g.page_size, offset |-> g.offset]

\* req(page_size, offset)
paginate_req(g) == [page_size |-> g.page_size, offset |-> g.offset]

\* a slip: the request for the page after this one is made at the same time
paginate_loop_parallel(g) ==
    [g |-> [g EXCEPT !.pc = "await"], elem |-> <<>>,
     call |-> <<paginate_req(g),
                paginate_req([g EXCEPT !.offset = AddU32(g.offset, AsU32(g.page_size))])>>,
     end |-> FALSE]

\* top of loop: the request is made and awaited
paginate_loop(g) == Awaiting(g, paginate_req(g))

\* a slip: the offset moved by the nominal page size
paginate_offset_by_page_size(g, page) == AddU32(g.offset, AsU32(g.page_size))

\* offset += page.items.len() as u32
paginate_offset(g, page) == AddU32(g.offset, AsU32(Len(page.items)))

\* a slip: is_some for is_none
paginate_break_inverted(g) == g.next # None

\* if page.next.is_none() { break; }
paginate_break(g) == g.next = None

\* a slip: the page drained from its back
paginate_for_reversed(g) ==
    IF g.items # <<>>
    THEN Yielded([g EXCEPT !.items = SubSeq(g.items, 1, Len(g.items) - 1)],
                 Ok(g.items[Len(g.items)]))
    ELSE IF g.next = None THEN Finished(g) ELSE paginate_loop(g)

\* a slip: the next page requested as soon as the last item of a page is yielded
paginate_for_prefetch(g) ==
    IF g.items # <<>>
    THEN IF Len(g.items) = 1 /\ g.next # None
         THEN [g |-> [g EXCEPT !.items = <<>>, !.pc = "await"],
               elem |-> <<Ok(Head(g.items))>>, call |-> <<paginate_req(g)>>, end |-> FALSE]
         ELSE Yielded([g EXCEPT !.items = Tail(g.items)], Ok(Head(g.items)))
    ELSE IF g.next = None THEN Finished(g) ELSE paginate_loop(g)

\* for item in page.items { yield Ok(item); } and what follows the loop
paginate_for(g) ==
    IF g.items # <<>>
    THEN Yielded([g EXCEPT !.items = Tail(g.items)], Ok(Head(g.items)))
    ELSE IF paginate_break(g) THEN Finished(g) ELSE paginate_loop(g)

\* a slip: a failed request ends the stream without its Err
paginate_await_swallow(g, res) ==
    IF res.tag = "Err"
    THEN Finished(g)
    ELSE paginate_for([g EXCEPT !.offset = paginate_offset(g, res.val),
                                !.items = res.val.items,
                                !.next = res.val.next])

\* a slip: the Err is yielded and the loop goes on (no return)
paginate_await_retry(g, res) ==
    IF res.tag = "Err"
    THEN [g |-> [g EXCEPT !.pc = "start"], elem |-> <<Err(res.err)>>, call |-> <<>>, end |-> FALSE]
    ELSE paginate_for([g EXCEPT !.offset = paginate_offset(g, res.val),
                                !.items = res.val.items,
                                !.next = res.val.next])

\* a slip (or a guard): a page without items and with next present is an error
paginate_await_guarded(g, res) ==
    IF res.tag = "Err"
    THEN YieldedErr(g, Err(res.err))
    ELSE IF res.val.items = <<>> /\ res.val.next # None
    THEN YieldedErr(g, Err("err_a"))
    ELSE paginate_for([g EXCEPT !.offset = paginate_offset(g, res.val),
                                !.items = res.val.items,
                                !.next = res.val.next])

\* a slip: a page with fewer items than page_size taken to be the last one
paginate_await_short_stop(g, res) ==
    IF res.tag = "Err"
    THEN YieldedErr(g, Err(res.err))
    ELSE paginate_for([g EXCEPT !.offset = paginate_offset(g, res.val),
                                !.items = res.val.items,
                                !.next = IF Len(res.val.items) < g.page_size
                                         THEN None ELSE res.val.next])

\* let page = req(..).await?;  then the rest of the loop body
paginate_await(g, res) ==
    IF res.tag = "Err"
    THEN YieldedErr(g, Err(res.err))
    ELSE IF overflow_checks /\ Overflows(g.offset, AsU32(Len(res.val.items)))
    THEN Panicked(g)
    ELSE paginate_for([g EXCEPT !.offset = paginate_offset(g, res.val),
                                !.items = res.val.items,
                                !.next = res.val.next])

\* the consumer polls a generator that is not waiting for a request
paginate_resume(g) ==
    CASE g.pc = "start" -> paginate_loop(g)
      [] g.pc = "yield" -> paginate_for(g)
      [] g.pc = "yield_err" -> Finished(g)
      [] g.pc = "done" -> Finished(g)

----------------------------------------------------------------------------
(* paginate_with_ctx, lines 15-39 *)

paginate_with_ctx(ctx, page_size) ==
    [variant |-> "paginate_with_ctx", ctx |-> ctx, page_size |-> page_size,
     offset |-> AsU32(0), items |-> <<>>, next |-> None, pc |-> "start"]

\* a slip: after the first page the request is given another context
paginate_with_ctx_req_other(g) ==
    [ctx |-> IF g.offset = AsU32(0) THEN g.ctx ELSE "ctx_a",
     page_size |-> g.page_size, offset |-> g.offset]

\* req(&ctx, page_size, offset)
paginate_with_ctx_req(g) == [ctx |-> g.ctx, page_size |-> g.page_size, offset |-> g.offset]

paginate_with_ctx_loop(g) == Awaiting(g, paginate_with_ctx_req(g))

\* a slip in one of the two copies: the offset moved by the nominal page size
paginate_with_ctx_offset_by_page_size(g, page) == AddU32(g.offset, AsU32(g.page_size))

paginate_with_ctx_offset(g, page) == AddU32(g.offset, AsU32(Len(page.items)))

paginate_with_ctx_break(g) == g.next = None

paginate_with_ctx_for(g) ==
    IF g.items # <<>>
    THEN Yielded([g EXCEPT !.items = Tail(g.items)], Ok(Head(g.items)))
    ELSE IF paginate_with_ctx_break(g) THEN Finished(g) ELSE paginate_with_ctx_loop(g)

paginate_with_ctx_await(g, res) ==
    IF res.tag = "Err"
    THEN YieldedErr(g, Err(res.err))
    ELSE IF overflow_checks /\ Overflows(g.offset, AsU32(Len(res.val.items)))
    THEN Panicked(g)
    ELSE paginate_with_ctx_for([g EXCEPT !.offset = paginate_with_ctx_offset(g, res.val),
                                         !.items = res.val.items,
                                         !.next = res.val.next])

paginate_with_ctx_resume(g) ==
    CASE g.pc = "start" -> paginate_with_ctx_loop(g)
      [] g.pc = "yield" -> paginate_with_ctx_for(g)
      [] g.pc = "yield_err" -> Finished(g)
      [] g.pc = "done" -> Finished(g)

----------------------------------------------------------------------------
(* The stream as its consumer drives it *)

Resume(g) ==
    IF g.variant = "paginate" THEN paginate_resume(g) ELSE paginate_with_ctx_resume(g)

Await(g, res) ==
    IF g.variant = "paginate" THEN paginate_await(g, res) ELSE paginate_with_ctx_await(g, res)

Pids == DOMAIN streams

\* a slip: one offset shared by all paginators (a static instead of a local)
Store_shared_offset(s, p, g) ==
    [q \in DOMAIN s |-> IF q = p THEN g ELSE [s[q] EXCEPT !.offset = g.offset]]

\* Each call of paginate / paginate_with_ctx moves its own offset and request
\* function into its own generator.
Store(s, p, g) == [s EXCEPT ![p] = g]

FetchCap == IF Cardinality(Pids) > 1 THEN PairMaxFetches ELSE MaxFetches

\* Number of calls of paginator p that have been answered: a request dropped
\* while in flight never is
Answered(p) == answered[p]

RECURSIVE ItemCount(_, _)
\* Items on the pages that answered calls 1..k
ItemCount(srv, k) ==
    IF k = 0 THEN 0
    ELSE ItemCount(srv, k - 1) + (IF srv[k].tag = "Ok" THEN Len(srv[k].val.items) ELSE 0)

OkItems(elems) == SelectSeq(elems, LAMBDA e : e.tag = "Ok")

\* Effects common to every poll of the stream
Polled(p, r, srv, firstPoll) ==
    LET outNew == out[p] \o r.elem
        done == r.elem # <<>> \/ r.end
    IN  /\ Len(calls[p]) + Len(r.call) <= FetchCap
        /\ r.end => nones[p] < MaxEndPulls
        /\ streams' = Store(streams, p, r.g)
        /\ out' = [out EXCEPT ![p] = outNew]
        /\ nones' = [nones EXCEPT ![p] = IF r.end THEN @ + 1 ELSE @]
        /\ consumer' = [consumer EXCEPT ![p] =
                            IF r.g.pc = "panicked" THEN "panicked"
                            ELSE IF done THEN "idle" ELSE "pulling"]
        /\ calls' = [calls EXCEPT ![p] =
                        @ \o [i \in 1 .. Len(r.call) |->
                                [args |-> r.call[i],
                                 delivered |-> Len(OkItems(outNew)),
                                 received |-> ItemCount(srv, Len(calls[p])),
                                 resolved |-> Len(calls[p]) - inflight[p]
                                                + (IF firstPoll THEN 0 ELSE 1),
                                 pull |-> Len(out[p]) + nones[p] + 1]]]
        /\ inflight' = [inflight EXCEPT ![p] =
                            @ - (IF firstPoll THEN 0 ELSE 1) + Len(r.call)]
        /\ answered' = [answered EXCEPT ![p] = @ + (IF firstPoll THEN 0 ELSE 1)]
        /\ UNCHANGED overflow_checks
        /\ pull' = [pull EXCEPT ![p] =
                        [calls |-> (IF firstPoll THEN 0 ELSE @.calls) + Len(r.call),
                         buffered |-> IF firstPoll THEN Len(streams[p].items) ELSE @.buffered,
                         from |-> IF firstPoll THEN streams[p].pc ELSE @.from]]
        /\ server' = srv

\* The consumer asks for the next element: the stream is polled and the
\* generator runs to its next suspension point.
Pull(p) ==
    /\ consumer[p] = "idle"
    /\ streams[p].pc # "await"
    /\ Polled(p, Resume(streams[p]), server, TRUE)

\* The awaited request resolves and the pending pull polls the stream again.
FetchReturns(p) ==
    /\ inflight[p] > 0
    /\ streams[p].pc = "await"
    /\ LET k == Len(calls[p])
       IN  \E res \in (IF k <= Len(server) THEN {server[k]} ELSE Responses(k)) :
               Polled(p, Await(streams[p], res),
                      IF k <= Len(server) THEN server ELSE Append(server, res), FALSE)

Next == \E p \in Pids : Pull(p) \/ FetchReturns(p)

\* The consumer drops the paginator, between pulls or while a pull is pending.
Drop(p) ==
    /\ consumer[p] \in {"idle", "pulling"}
    /\ streams' = Store(streams, p, Dropped(streams[p]))
    /\ consumer' = [consumer EXCEPT ![p] = "dropped"]
    /\ inflight' = [inflight EXCEPT ![p] = IF streams'[p].pc = "dropped" THEN 0 ELSE @]
    /\ UNCHANGED <<pull, calls, out, nones, server, answered, overflow_checks>>

NextDrop == \E p \in Pids : Pull(p) \/ FetchReturns(p) \/ Drop(p)

Fresh(S) ==
    /\ consumer = [p \in S |-> "idle"]
    /\ pull = [p \in S |-> [calls |-> 0, buffered |-> 0, from |-> "start"]]
    /\ calls = [p \in S |-> <<>>]
    /\ out = [p \in S |-> <<>>]
    /\ nones = [p \in S |-> 0]
    /\ server = <<>>
    /\ inflight = [p \in S |-> 0]
    /\ answered = [p \in S |-> 0]
    /\ overflow_checks \in BOOLEAN

Constructions(page_size) ==
    {paginate(page_size)} \cup {paginate_with_ctx(c, page_size) : c \in Contexts}

\* One paginator, just constructed
Init ==
    /\ \E ps \in PageSizes : \E g \in Constructions(ps) : streams = [p \in {1} |-> g]
    /\ Fresh({1})

Spec == Init /\ [][Next]_vars


\* Offsets just below 2^32
NearWrap == {<<Half - 1, Half - 1 - d>> : d \in 0 .. WrapMargin}

\* One paginator far into its run: its offset is close to 2^32, the items of
\* its current page have all been yielded and that page had next present.
\* calls, out and server record what happens from here on.
InitNearWrap ==
    /\ \E ps \in PageSizes : \E g \in Constructions(ps) : \E o \in NearWrap :
           streams = [p \in {1} |-> [g EXCEPT !.offset = o, !.next = Some, !.pc = "yield"]]
    /\ Fresh({1})

SpecWrap == InitNearWrap /\ [][Next]_vars

\* Two paginators built with the same page_size over the same request
\* function: call k of either is answered by server[k].
InitPair ==
    /\ \E ps \in PageSizes : \E g \in Constructions(ps) :
           streams = [p \in {1, 2} |-> IF p = 1 THEN paginate(ps) ELSE g]
    /\ Fresh({1, 2})

SpecPair == InitPair /\ [][Next]_vars

\* The same two paginators, with consumers that may drop them at any time
SpecDrop == InitPair /\ [][NextDrop]_vars

----------------------------------------------------------------------------
(* Vocabulary of the properties *)

IsPrefix(a, b) == Len(a) <= Len(b) /\ SubSeq(b, 1, Len(a)) = a

OkSeq(items) == [i \in 1 .. Len(items) |-> Ok(items[i])]

RECURSIVE Flatten(_, _)
\* The items of the pages answering calls 1..k, page after page, as Ok elements
Flatten(srv, k) ==
    IF k = 0 THEN <<>>
    ELSE Flatten(srv, k - 1) \o (IF srv[k].tag = "Ok" THEN OkSeq(srv[k].val.items) ELSE <<>>)

IsOkPage(res) == res.tag = "Ok"
IsLastPage(res) == res.tag = "Ok" /\ res.val.next = None
IsErr(res) == res.tag = "Err"

\* Calls 1..k all succeeded and call k is the first answered with next absent
FirstLastPage(p, k) ==
    /\ k \in 1 .. Answered(p)
    /\ IsLastPage(server[k])
    /\ \A i \in 1 .. k - 1 : IsOkPage(server[i]) /\ ~IsLastPage(server[i])

\* Calls 1..k-1 succeeded with next present and call k failed
FirstFailure(p, k) ==
    /\ k \in 1 .. Answered(p)
    /\ IsErr(server[k])
    /\ \A i \in 1 .. k - 1 : IsOkPage(server[i]) /\ ~IsLastPage(server[i])

\* Pulls the consumer has started / got an answer to
PullsDone(p) == Len(out[p]) + nones[p]
PullsStarted(p) == PullsDone(p) + (IF consumer[p] = "pulling" THEN 1 ELSE 0)

NoErrIn(elems) == \A i \in 1 .. Len(elems) : elems[i].tag = "Ok"

----------------------------------------------------------------------------
\* C1 (Ordering): what the consumer has received is always a prefix of the
\* concatenation, in call order, of the items of the pages fetched so far;
\* and once a paginator whose calls all succeeded has reported its end, the
\* consumer has received exactly that concatenation: c1+...+cN Ok items,
\* nothing duplicated, dropped or reordered.
C1_Ordering ==
    \A p \in Pids :
        /\ IsPrefix(OkItems(out[p]), Flatten(server, Answered(p)))
        /\ \A k \in 1 .. Answered(p) :
              FirstLastPage(p, k) /\ nones[p] > 0 =>
                  /\ out[p] = Flatten(server, k)
                  /\ Len(out[p]) = ItemCount(server, k)

\* A drained paginator that went through a full page and then a shorter one
C1_Witness ==
    \E p \in Pids :
        /\ FirstLastPage(p, 2)
        /\ nones[p] > 0
        /\ Len(server[1].val.items) = 2
        /\ Len(server[2].val.items) = 1
        /\ Len(out[p]) = 3

\* C2 (Offset advancement): call 1 of every paginator has offset 0 and call
\* k+1 has as offset the number of items on the pages that answered calls
\* 1..k, whatever their lengths.
C2_OffsetAdvancement ==
    \A p \in Pids : \A i \in 1 .. Len(calls[p]) :
        calls[p][i].args.offset = AsU32(ItemCount(server, i - 1))

\* A third call made after a short page and an empty page, with page_size 2
C2_Witness ==
    \E p \in Pids :
        /\ Len(calls[p]) = 3
        /\ streams[p].page_size = 2
        /\ IsOkPage(server[1]) /\ Len(server[1].val.items) = 1
        /\ IsOkPage(server[2]) /\ Len(server[2].val.items) = 0
        /\ calls[p][3].args.offset = AsU32(1)

\* C3 (Termination): when calls 1..k all succeeded and page k is the first
\* with next absent, exactly k calls have been made and no more is ever
\* made, no Err is delivered, no pull is left waiting, and every pull made
\* after the last item of page k reports the end of the sequence.
C3_Termination ==
    \A p \in Pids : \A k \in 1 .. Answered(p) :
        FirstLastPage(p, k) =>
            /\ Len(calls[p]) = k
            /\ NoErrIn(out[p])
            /\ consumer[p] = "idle"
            /\ streams[p].pc \in {"yield", "done"}
            /\ Len(out[p]) + Len(streams[p].items) = ItemCount(server, k)
            /\ nones[p] > 0 <=> streams[p].pc = "done"
            /\ nones[p] > 0 => out[p] = Flatten(server, k)

\* The third page was the last one and the consumer pulled twice more
C3_Witness ==
    \E p \in Pids :
        /\ FirstLastPage(p, 3)
        /\ Len(out[p]) >= 2
        /\ nones[p] = MaxEndPulls

\* C4 (Error short-circuit): when calls 1..k-1 succeeded and call k failed,
\* the consumer has received the items of pages 1..k-1 in order followed by
\* one Err carrying that failure, and nothing else: later pulls report the
\* end of the sequence.
C4_ErrorShortCircuit ==
    \A p \in Pids : \A k \in 1 .. Answered(p) :
        FirstFailure(p, k) =>
            /\ out[p] = Flatten(server, k - 1) \o <<Err(server[k].err)>>
            /\ consumer[p] = "idle"
            /\ streams[p].pc \in {"yield_err", "done"}
            /\ nones[p] > 0 <=> streams[p].pc = "done"

\* Two pages with items, a failure of the third call, and two pulls after it
C4_Witness ==
    \E p \in Pids :
        /\ FirstFailure(p, 3)
        /\ Len(out[p]) >= 3
        /\ out[p][Len(out[p])] = Err("err_b")
        /\ nones[p] = MaxEndPulls

\* C5 (Laziness): a request is outstanding only while the consumer is
\* pulling; when a call was made every item of every page fetched before it
\* had been delivered; before the first pull no call has been made; and the
\* items held back are a tail of the one page fetched last.
C5_Laziness ==
    \A p \in Pids :
        /\ streams[p].pc = "await" => consumer[p] = "pulling"
        /\ \A i \in 1 .. Len(calls[p]) : calls[p][i].delivered = calls[p][i].received
        /\ PullsStarted(p) = 0 => calls[p] = <<>>
        /\ streams[p].items # <<>> =>
              /\ Answered(p) >= 1
              /\ IsOkPage(server[Answered(p)])
              /\ LET page == server[Answered(p)].val.items
                     n == Len(streams[p].items)
                 IN  /\ n <= Len(page)
                     /\ streams[p].items = SubSeq(page, Len(page) - n + 1, Len(page))

\* A second call in flight after a two-item page was handed over in full
C5_Witness ==
    \E p \in Pids :
        /\ Len(calls[p]) = 2
        /\ streams[p].pc = "await"
        /\ Len(server[1].val.items) = 2
        /\ calls[p][2].delivered = 2

\* The call count before the current / most recent pull of p began
CallsBeforePull(p) == Len(calls[p]) - pull[p].calls

\* The current / most recent pull of p found nothing to fetch: an item of the
\* current page was left, or the sequence was over (last page, failure, end)
PullServed(p) ==
    \/ pull[p].buffered > 0
    \/ pull[p].from \in {"yield_err", "done"}
    \/ pull[p].from = "yield" /\ IsLastPage(server[CallsBeforePull(p)])

EmptyWithNext(res) == IsOkPage(res) /\ res.val.items = <<>> /\ res.val.next # None

\* C6 as claimed: every answered pull has issued exactly one call to the
\* request function.
C6_OneCallPerPull ==
    \A p \in Pids : consumer[p] = "idle" /\ PullsDone(p) > 0 => pull[p].calls = 1

\* C6 (amended): a pull calls the request function only when no item of the
\* current page is left and the sequence is not over; it then makes one call
\* for each page it goes through: every call of the pull but the last was
\* answered by an empty page with next present, and the last one is in
\* flight or was answered by something else. Any other pull makes no call.
C6_CallsPerPull ==
    \A p \in Pids :
        PullsStarted(p) > 0 =>
            IF PullServed(p)
            THEN pull[p].calls = 0
            ELSE /\ pull[p].calls >= 1
                 /\ \A i \in CallsBeforePull(p) + 1 .. Len(calls[p]) - 1 :
                       EmptyWithNext(server[i])
                 /\ consumer[p] = "idle" =>
                       /\ Answered(p) = Len(calls[p])
                       /\ ~EmptyWithNext(server[Len(calls[p])])
                 /\ consumer[p] = "pulling" => streams[p].pc = "await"

\* A pull that went through an empty page and delivered the first item of
\* the page after it (two calls), after a pull served from a page (no call)
C6_Witness ==
    \E p \in Pids :
        /\ consumer[p] = "idle"
        /\ pull[p].calls = 2
        /\ Len(calls[p]) = 3
        /\ Len(out[p]) = 3
        /\ out[p][3] = Ok(<<3, 1>>)

\* C7 (No retry after failure): once call k has failed, k stays the number
\* of calls made, however many pulls follow, and the offset stays the one
\* of the failed call.
C7_NoRetry ==
    \A p \in Pids : \A k \in 1 .. Answered(p) :
        IsErr(server[k]) =>
            /\ Len(calls[p]) = k
            /\ streams[p].offset = calls[p][k].args.offset

\* The second call failed and the consumer pulled past the Err twice
C7_Witness ==
    \E p \in Pids :
        /\ Answered(p) = 2
        /\ IsErr(server[2])
        /\ nones[p] = MaxEndPulls

BothPaginate == \A p \in Pids : streams[p].variant = "paginate"

\* Everything paginator p holds and has shown
View(p) == <<streams[p], consumer[p], pull[p], calls[p], out[p], nones[p]>>

\* What p holds and has shown is what its own progress against the server gives
Alone(p) ==
    LET a == Answered(p)
    IN  /\ streams[p].offset = AsU32(ItemCount(server, a))
        /\ \A i \in 1 .. Len(calls[p]) :
              calls[p][i].args = [page_size |-> streams[p].page_size,
                                  offset |-> AsU32(ItemCount(server, i - 1))]
        /\ out[p] \o OkSeq(streams[p].items) =
              Flatten(server, a)
                \o (IF a >= 1 /\ IsErr(server[a]) THEN <<Err(server[a].err)>> ELSE <<>>)

C8_Alone == BothPaginate => \A p \in Pids : Alone(p)

C8_Frame ==
    \A p \in Pids : View(p)' # View(p) => \A q \in Pids \ {p} : View(q)' = View(q)

\* C8 (Idempotent construction): of two paginators built by paginate with
\* the same request function and page_size, each starts at offset 0, a step
\* of one leaves the offset, page and results of the other unchanged, and
\* each holds and has yielded what it would if it were consumed alone.
C8_Independent == [](C8_Alone) /\ [][C8_Frame]_vars

\* One paginator is past its first page while the other has not been pulled
\* since it got the first item
C8_Witness ==
    /\ Cardinality(Pids) = 2
    /\ BothPaginate
    /\ Len(calls[1]) = 2
    /\ Len(out[1]) = 2
    /\ Len(calls[2]) = 1
    /\ Len(out[2]) = 1
    /\ streams[1].offset # streams[2].offset

C9_SameCtx ==
    \A p \in Pids :
        streams[p].variant = "paginate_with_ctx" =>
            /\ streams[p].ctx \in Contexts
            /\ \A i \in 1 .. Len(calls[p]) : calls[p][i].args.ctx = streams[p].ctx

C9_CtxKept == \A p \in Pids : streams[p].ctx' = streams[p].ctx

\* C9 (Context threading): every call paginate_with_ctx makes to the request
\* function is given the context the paginator was built with, which no
\* step changes.
C9_ContextThreading == [](C9_SameCtx) /\ [][C9_CtxKept]_vars

\* Three calls made with context ctx_b
C9_Witness ==
    \E p \in Pids :
        /\ streams[p].variant = "paginate_with_ctx"
        /\ streams[p].ctx = "ctx_b"
        /\ Len(calls[p]) = 3
        /\ calls[p][3].args.offset # AsU32(0)

\* C10 (Empty result): when the first call is answered by a page with no
\* item and next absent, the first pull reports the end of the sequence:
\* no element is ever delivered and that one call is the only one.
C10_EmptyResult ==
    \A p \in Pids :
        Answered(p) >= 1 /\ server[1] = Ok(Page(<<>>, None)) =>
            /\ out[p] = <<>>
            /\ Len(calls[p]) = 1
            /\ consumer[p] = "idle"
            /\ streams[p].pc = "done"
            /\ nones[p] >= 1
            /\ PullsStarted(p) = nones[p]

\* The first pull has just ended the sequence after its one call
C10_Witness ==
    \E p \in Pids :
        /\ server = <<Ok(Page(<<>>, None))>>
        /\ nones[p] = 1
        /\ pull[p].calls = 1
        /\ pull[p].from = "start"

\* b is a plus n, with nothing lost: the offset went from a to b by growing n
GrowsBy(a, n, b) == b = AddU32(a, AsU32(n)) /\ LeqU32(a, b)

\* The offset the paginator held once call i had been answered
OffsetAfter(p, i) ==
    IF i < Len(calls[p]) THEN calls[p][i + 1].args.offset ELSE streams[p].offset

\* C11 (Offset monotonicity under 32-bit arithmetic): the offsets of
\* successive calls never decrease, and every page that answers a call makes
\* the offset grow by exactly the number of its items, also when the
\* cumulative count reaches 2^32.
C11_OffsetMonotone ==
    \A p \in Pids :
        /\ \A i \in 1 .. Len(calls[p]) - 1 :
              LeqU32(calls[p][i].args.offset, calls[p][i + 1].args.offset)
        /\ \A i \in 1 .. Answered(p) :
              IsOkPage(server[i]) =>
                  GrowsBy(calls[p][i].args.offset, Len(server[i].val.items), OffsetAfter(p, i))

\* C12 (Zero-progress stall): a page without items and with next present is
\* followed, within the same pull, by a call at the same offset; and as long
\* as every answer is such a page the one pull is still pending with a call
\* in flight at offset 0: nothing has been delivered, neither an element nor
\* the end of the sequence.
C12_ZeroProgressStall ==
    \A p \in Pids :
        /\ \A i \in 1 .. Answered(p) :
              EmptyWithNext(server[i]) =>
                  /\ Len(calls[p]) > i
                  /\ calls[p][i + 1].args.offset = calls[p][i].args.offset
                  /\ calls[p][i + 1].pull = calls[p][i].pull
        /\ (Len(calls[p]) >= 1 /\ \A i \in 1 .. Answered(p) : EmptyWithNext(server[i])) =>
              /\ out[p] = <<>>
              /\ nones[p] = 0
              /\ PullsStarted(p) = 1
              /\ consumer[p] = "pulling"
              /\ streams[p].pc = "await"
              /\ \A i \in 1 .. Len(calls[p]) :
                    calls[p][i].args.offset = AsU32(0) /\ calls[p][i].pull = 1

\* Two empty pages with next present: the first pull is at its third call
C12_Witness ==
    \E p \in Pids :
        /\ Len(calls[p]) = 3
        /\ Answered(p) = 2
        /\ EmptyWithNext(server[1])
        /\ EmptyWithNext(server[2])
        /\ streams[p].pc = "await"

\* C13 (Sequential fetches): a paginator has at most one request in flight;
\* call k is made when the k-1 calls before it have resolved; and a request
\* is in flight only while the generator awaits it inside a pending pull.
C13_SequentialFetches ==
    \A p \in Pids :
        /\ inflight[p] <= 1
        /\ Len(calls[p]) = Answered(p) + inflight[p]
        /\ \A i \in 1 .. Len(calls[p]) : calls[p][i].resolved = i - 1
        /\ inflight[p] = 1 => streams[p].pc = "await" /\ consumer[p] = "pulling"
        /\ consumer[p] = "idle" => inflight[p] = 0

\* The third call is in flight, after items of earlier pages were delivered
C13_Witness ==
    \E p \in Pids :
        /\ inflight[p] = 1
        /\ Len(calls[p]) = 3
        /\ Len(out[p]) >= 2
        /\ consumer[p] = "pulling"

\* The (page_size, offset) arguments of the calls of p, in order
FetchArgs(p) ==
    [i \in 1 .. Len(calls[p]) |->
        [page_size |-> calls[p][i].args.page_size, offset |-> calls[p][i].args.offset]]

Comparable(a, b) == IsPrefix(a, b) \/ IsPrefix(b, a)

\* Paginator 1 was built by paginate and paginator 2 by paginate_with_ctx
\* (InitPair gives them the same page_size and the same server responses)
OneOfEach ==
    /\ Cardinality(Pids) = 2
    /\ streams[1].variant = "paginate"
    /\ streams[2].variant = "paginate_with_ctx"

\* C14 (Variant equivalence): against the same responses and with the same
\* page_size, paginate and paginate_with_ctx make the same calls but for the
\* extra context argument, yield the same elements and end at the same
\* point: the calls and elements of the one that is behind are a prefix of
\* the other's, nothing goes past the other's end, and at equal progress
\* their offset, page and position are equal.
C14_VariantEquivalence ==
    OneOfEach =>
        /\ Comparable(FetchArgs(1), FetchArgs(2))
        /\ Comparable(out[1], out[2])
        /\ \A p, q \in Pids :
              nones[p] > 0 => IsPrefix(out[q], out[p]) /\ IsPrefix(FetchArgs(q), FetchArgs(p))
        /\ \A i \in 1 .. Len(calls[1]) : DOMAIN calls[1][i].args = {"page_size", "offset"}
        /\ \A i \in 1 .. Len(calls[2]) :
              /\ DOMAIN calls[2][i].args = {"ctx", "page_size", "offset"}
              /\ calls[2][i].args.ctx = streams[2].ctx
        /\ (/\ PullsStarted(1) = PullsStarted(2)
            /\ consumer[1] = consumer[2]
            /\ Len(calls[1]) = Len(calls[2])) =>
              /\ out[1] = out[2]
              /\ nones[1] > 0 <=> nones[2] > 0
              /\ streams[1].offset = streams[2].offset
              /\ streams[1].items = streams[2].items
              /\ streams[1].next = streams[2].next
              /\ streams[1].pc = streams[2].pc

\* Both variants have been drained over two pages
C14_Witness ==
    /\ OneOfEach
    /\ nones[1] > 0
    /\ nones[2] > 0
    /\ Len(calls[1]) = 2
    /\ Len(calls[2]) = 2
    /\ Len(out[1]) >= 2
    /\ out[1] = out[2]

\* Nothing of a dropped paginator is left to run
C15_Released ==
    \A p \in Pids :
        consumer[p] = "dropped" =>
            /\ streams[p].pc = "dropped"
            /\ inflight[p] = 0
            /\ ~ENABLED (Pull(p) \/ FetchReturns(p))

\* No step changes what a dropped paginator has called, yielded or counted
C15_Frozen ==
    \A p \in Pids :
        consumer[p] = "dropped" =>
            /\ consumer[p]' = "dropped"
            /\ calls[p]' = calls[p]
            /\ out[p]' = out[p]
            /\ nones[p]' = nones[p]
            /\ answered[p]' = answered[p]
            /\ streams[p].offset' = streams[p].offset

\* C15 (Cancellation): once the consumer has dropped a paginator, between
\* pulls or with a request in flight, no call to the request function is
\* started for it, the answer to an abandoned request is neither delivered
\* nor added to the offset, and no element is yielded.
C15_Cancellation == [](C15_Released) /\ [][C15_Frozen]_vars

\* Paginator 1 was dropped with its second request in flight and unanswered,
\* and paginator 2 has since had that request answered
C15_Witness ==
    /\ consumer[1] = "dropped"
    /\ Len(calls[1]) = 2
    /\ Answered(1) = 1
    /\ Len(out[1]) = 1
    /\ streams[1].offset = AsU32(1)
    /\ Len(server) = 2
    /\ IsOkPage(server[2])
    /\ Len(out[2]) >= 2

C16_Forwarded ==
    \A p \in Pids :
        /\ \A i \in 1 .. Len(calls[p]) : calls[p][i].args.page_size = streams[p].page_size
        /\ streams[p].pc # "panicked"
        /\ \A j \in 1 .. Len(out[p]) :
              out[p][j].tag = "Err" => \E k \in 1 .. Answered(p) : server[k] = out[p][j]

C16_PageSizeKept == \A p \in Pids : streams[p].page_size' = streams[p].page_size

\* C16 (Page size pass-through): every call is given the page_size the
\* paginator was built with, which no step changes; whatever its value, 0
\* included, the engine itself never fails: every Err delivered is one the
\* request function returned.
C16_PageSizePassThrough == [](C16_Forwarded) /\ [][C16_PageSizeKept]_vars

\* A paginator built with page_size 0 has made three calls and yielded items
C16_Witness ==
    \E p \in Pids :
        /\ streams[p].page_size = 0
        /\ Len(calls[p]) = 3
        /\ calls[p][3].args.page_size = 0
        /\ Len(OkItems(out[p])) >= 2

C17_NextDecides ==
    \A p \in Pids : \A k \in 1 .. Answered(p) :
        IsOkPage(server[k]) =>
            /\ server[k].val.next = None => Len(calls[p]) = k
            /\ (server[k].val.next # None /\ Len(calls[p]) = k) =>
                  streams[p].pc = "yield" /\ consumer[p] = "idle"

C17_PullPastPage ==
    \A p \in Pids :
        (/\ consumer[p] = "idle"
         /\ streams[p].pc = "yield"
         /\ streams[p].items = <<>>
         /\ View(p)' # View(p)) =>
            /\ Len(calls[p]') = Len(calls[p]) + 1 <=> streams[p].next # None
            /\ nones[p]' = nones[p] + 1 <=> streams[p].next = None

\* C17 (Continuation depends only on next): a page with next absent is never
\* followed by a call; a page with next present is followed by one unless
\* the consumer has not yet pulled past its last item; and the pull past the
\* last item of a page makes a call exactly when next is present and ends
\* the sequence exactly when it is absent, whatever the page's length.
C17_ContinuationByNext == [](C17_NextDecides) /\ [][C17_PullPastPage]_vars

\* page_size 2: a page of one item with next present was followed by a call,
\* and the full page that answered it, with next absent, ended the sequence
C17_Witness ==
    \E p \in Pids :
        /\ streams[p].page_size = 2
        /\ Len(calls[p]) = 2
        /\ Answered(p) = 2
        /\ IsOkPage(server[1]) /\ Len(server[1].val.items) = 1 /\ server[1].val.next # None
        /\ IsLastPage(server[2]) /\ Len(server[2].val.items) = 2
        /\ nones[p] > 0

\* C18 (Offset accounting): the offset is the number of Ok items delivered
\* plus the number of items of the current page not yet delivered, and the
\* offset of every call is the number of Ok items delivered when it was made.
C18_OffsetAccounting ==
    \A p \in Pids :
        /\ streams[p].offset = AsU32(Len(OkItems(out[p])) + Len(streams[p].items))
        /\ \A i \in 1 .. Len(calls[p]) :
              calls[p][i].args.offset = AsU32(calls[p][i].delivered)

\* Three items delivered and one of the second page still held back
C18_Witness ==
    \E p \in Pids :
        /\ Len(OkItems(out[p])) = 3
        /\ Len(streams[p].items) = 1
        /\ streams[p].offset = AsU32(4)
        /\ Len(calls[p]) = 2

====
